---- MODULE Spec2Model ----
(***************************************************************************)
(* scripts/generate-ninja.py: the generator that scans the project tree,   *)
(* classifies every firmware source, and writes build.ninja.               *)
(*                                                                         *)
(* File names and ninja paths are tuples of one-character strings, so that *)
(* str.replace, the substring tests and the f-string concatenations are    *)
(* computed as Python computes them.  A ninja path is a record             *)
(* [dir, file]: the text before the last "/" and the text after it.        *)
(***************************************************************************)
EXTENDS Integers, Sequences, FiniteSets, TLC

\* Largest number of files in firmware/ that the model enumerates.
MaxFw == 2

\* f.read(2000): the number of leading characters categorize_firmware reads.
ReadLimit == 2000

-----------------------------------------------------------------------------
(* Strings *)

\* The characters of the string literals that occur in paths.
Chars(s) ==
  CASE s = "ab.c"                   -> <<"a","b",".","c">>
    [] s = "a.cb.c"                 -> <<"a",".","c","b",".","c">>
    [] s = "fw_start.c"             -> <<"f","w","_","s","t","a","r","t",".","c">>
    [] s = "ter.cm.c"               -> <<"t","e","r",".","c","m",".","c">>
    [] s = "term.c"                 -> <<"t","e","r","m",".","c">>
    [] s = "timer_ms.c"             -> <<"t","i","m","e","r","_","m","s",".","c">>
    [] s = "hello.c"                -> <<"h","e","l","l","o",".","c">>
    [] s = "timer_ms"               -> <<"t","i","m","e","r","_","m","s">>
    [] s = "timer_lib"              -> <<"t","i","m","e","r","_","l","i","b">>
    [] s = "bootloader.o"           -> <<"b","o","o","t","l","o","a","d","e","r",".","o">>
    [] s = "start.o"                -> <<"s","t","a","r","t",".","o">>
    [] s = "fw_start.o"             -> <<"f","w","_","s","t","a","r","t",".","o">>
    [] s = "bootloader.c"           -> <<"b","o","o","t","l","o","a","d","e","r",".","c">>
    [] s = "start.S"                -> <<"s","t","a","r","t",".","S">>
    [] s = "bootloader.elf"         -> <<"b","o","o","t","l","o","a","d","e","r",".","e","l","f">>
    [] s = "bootloader.bin"         -> <<"b","o","o","t","l","o","a","d","e","r",".","b","i","n">>
    [] s = "bootloader.hex"         -> <<"b","o","o","t","l","o","a","d","e","r",".","h","e","x">>
    [] s = "bootloader"             -> <<"b","o","o","t","l","o","a","d","e","r">>
    [] s = "firmware-bare"          -> <<"f","i","r","m","w","a","r","e","-","b","a","r","e">>
    [] s = "firmware-newlib"        -> <<"f","i","r","m","w","a","r","e","-","n","e","w","l","i","b">>
    [] s = "firmware-complex"       -> <<"f","i","r","m","w","a","r","e","-","c","o","m","p","l","e","x">>
    [] s = "firmware-all"           -> <<"f","i","r","m","w","a","r","e","-","a","l","l">>
    [] s = "lib_"                   -> <<"l","i","b","_">>
    [] s = "_"                      -> <<"_">>
    [] s = "incurses"               -> <<"i","n","c","u","r","s","e","s">>
    [] s = "microrl"                -> <<"m","i","c","r","o","r","l">>
    [] s = "simple_upload"          -> <<"s","i","m","p","l","e","_","u","p","l","o","a","d">>
    [] s = "win.c"                  -> <<"w","i","n",".","c">>
    [] s = "kbd.c"                  -> <<"k","b","d",".","c">>
    [] s = "microrl.c"              -> <<"m","i","c","r","o","r","l",".","c">>
    [] s = ".c"                     -> <<".","c">>
    [] s = ".o"                     -> <<".","o">>
    [] s = ".elf"                   -> <<".","e","l","f">>
    [] s = ".bin"                   -> <<".","b","i","n">>
    [] s = "top.v"                  -> <<"t","o","p",".","v">>
    [] s = "uart.v"                 -> <<"u","a","r","t",".","v">>
    [] s = "cpu_2cycle.v"           -> <<"c","p","u","_","2","c","y","c","l","e",".","v">>
    [] s = "_2cycle"                -> <<"_","2","c","y","c","l","e">>
    [] s = ".3state"                -> <<".","3","s","t","a","t","e">>
    [] s = "hdl/"                   -> <<"h","d","l","/">>
    [] s = "ice40_picorv32.json"    -> <<"i","c","e","4","0","_","p","i","c","o","r","v","3","2",".","j","s","o","n">>
    [] s = "ice40_picorv32.asc"     -> <<"i","c","e","4","0","_","p","i","c","o","r","v","3","2",".","a","s","c">>
    [] s = "ice40_picorv32.bin"     -> <<"i","c","e","4","0","_","p","i","c","o","r","v","3","2",".","b","i","n">>
    [] s = "timing.rpt"             -> <<"t","i","m","i","n","g",".","r","p","t">>
    [] s = "bitstream"              -> <<"b","i","t","s","t","r","e","a","m">>
    [] s = "gateware"               -> <<"g","a","t","e","w","a","r","e">>
    [] s = "fw_upload"              -> <<"f","w","_","u","p","l","o","a","d">>
    [] s = "fw_upload.c"            -> <<"f","w","_","u","p","l","o","a","d",".","c">>
    [] s = "uploader"               -> <<"u","p","l","o","a","d","e","r">>
    [] s = "host/fw_upload"         -> <<"h","o","s","t","/","f","w","_","u","p","l","o","a","d">>
    [] s = "gateware/ice40_picorv32.bin" -> <<"g","a","t","e","w","a","r","e","/","i","c","e","4","0","_","p","i","c","o","r","v","3","2",".","b","i","n">>
    [] s = "firmware"               -> <<"f","i","r","m","w","a","r","e">>
    [] s = "host"                   -> <<"h","o","s","t">>
    [] s = "collect-firmware"       -> <<"c","o","l","l","e","c","t","-","f","i","r","m","w","a","r","e">>
    [] s = "artifacts"              -> <<"a","r","t","i","f","a","c","t","s">>
    [] s = "all"                    -> <<"a","l","l">>

\* The elements of a sequence, and the number of places holding x.
Range(s) == {s[i] : i \in 1..Len(s)}

Count(x, s) == Cardinality({i \in 1..Len(s) : s[i] = x})

\* The concatenation of a sequence of sequences.
RECURSIVE Concat(_)
Concat(ss) == IF ss = <<>> THEN <<>> ELSE Head(ss) \o Concat(Tail(ss))

\* s starts with p; s ends with p; p occurs in s (Python: p in s).
StartsWith(s, p) == Len(s) >= Len(p) /\ SubSeq(s, 1, Len(p)) = p

EndsWith(s, p) == Len(s) >= Len(p) /\ SubSeq(s, Len(s) - Len(p) + 1, Len(s)) = p

Contains(s, p) == \E i \in 1..(Len(s) - Len(p) + 1) : SubSeq(s, i, i + Len(p) - 1) = p

\* Python str.replace(old, new): every non-overlapping occurrence of old,
\* scanning from the left, is replaced by new.
RECURSIVE Replace(_, _, _)
Replace(s, old, new) ==
  IF s = <<>> THEN <<>>
  ELSE IF StartsWith(s, old)
       THEN new \o Replace(SubSeq(s, Len(old) + 1, Len(s)), old, new)
       ELSE <<Head(s)>> \o Replace(Tail(s), old, new)

\* The sequences that hold every element of the set S exactly once: the
\* orders in which glob.glob may return the files of a directory.
RECURSIVE Orders(_)
Orders(S) ==
  IF S = {} THEN {<<>>}
  ELSE UNION {{<<x>> \o o : o \in Orders(S \ {x})} : x \in S}

\* A path written into build.ninja or returned by glob.
Path(dir, file) == [dir |-> dir, file |-> file]

-----------------------------------------------------------------------------
(* The project tree *)

\* A stretch of source text: `text` written `times` times.
Tok(text) == [text |-> text, times |-> 1]

Pad(n) == [text |-> " ", times |-> n]

Width(tok) == Len(tok.text) * tok.times

\* Files that may exist in firmware/: name and content.  ab.c and a.cb.c
\* are distinct files, as are term.c and ter.cm.c; fw_start.c shares its
\* stem with the object of firmware/start.S; hello.c carries one marker
\* that ends at character 2000 and one after it.
FirmwareCatalogue ==
  { [name |-> Chars("ab.c"),       content |-> <<Tok("int main"), Tok("_start")>>],
    [name |-> Chars("a.cb.c"),     content |-> <<Tok("<stdio.h>")>>],
    [name |-> Chars("fw_start.c"), content |-> <<Tok("incurses.h"), Tok("<stdio.h>")>>],
    [name |-> Chars("term.c"),     content |-> <<Tok("_write"), Tok("lib/microrl/"), Tok("incurses.h")>>],
    [name |-> Chars("ter.cm.c"),   content |-> <<Tok("microrl.h")>>],
    [name |-> Chars("timer_ms.c"), content |-> <<Tok("microrl.h")>>],
    [name |-> Chars("hello.c"),    content |-> <<Pad(1990), Tok("<string.h>"), Tok("simple_upload.h")>>] }

\* The trees the model starts from: at most MaxFw of the catalogue's files.
FirmwareTrees == {T \in SUBSET FirmwareCatalogue : Cardinality(T) <= MaxFw}

\* The .c files of lib/<name>/ and the .v files of hdl/.
LibTree(lib_name) ==
  CASE lib_name = "incurses"      -> {Chars("win.c"), Chars("kbd.c")}
    [] lib_name = "microrl"       -> {Chars("microrl.c")}
    [] lib_name = "simple_upload" -> {}

HdlTree == {Chars("top.v"), Chars("cpu_2cycle.v")}

\* What the probes may find: the output of nproc ("" when the command
\* fails), the prefixes whose gcc exists, and whether the downloaded
\* oss-cad-suite is present.
Environments ==
  { [nproc |-> "8", oss_cad |-> FALSE,
     gcc |-> {"build/toolchain/bin/riscv32-unknown-elf-", "riscv64-unknown-elf-"}],
    [nproc |-> "", oss_cad |-> TRUE, gcc |-> {}] }

-----------------------------------------------------------------------------
(* Probes *)

get_nproc(e) == IF e.nproc = "" THEN "4" ELSE e.nproc

ToolchainPrefixes ==
  << "build/toolchain/bin/riscv64-unknown-elf-",
     "build/toolchain/bin/riscv32-unknown-elf-",
     "riscv64-unknown-elf-",
     "riscv32-unknown-elf-" >>

detect_toolchain_prefix(e) ==
  IF \E i \in 1..Len(ToolchainPrefixes) : ToolchainPrefixes[i] \in e.gcc
  THEN ToolchainPrefixes[CHOOSE i \in 1..Len(ToolchainPrefixes) :
                           /\ ToolchainPrefixes[i] \in e.gcc
                           /\ \A j \in 1..(i - 1) : ToolchainPrefixes[j] \notin e.gcc]
  ELSE "riscv64-unknown-elf-"

\* The results has_newlib can return: the compiler of the detected prefix
\* is run on a file that includes stdio.h; when it cannot be started the
\* exception handler returns False.
has_newlib(e) ==
  IF detect_toolchain_prefix(e) \in e.gcc THEN {TRUE, FALSE} ELSE {FALSE}

detect_fpga_tools(e) ==
  IF e.oss_cad
  THEN [yosys   |-> "downloads/oss-cad-suite/bin/yosys",
        nextpnr |-> "downloads/oss-cad-suite/bin/nextpnr-ice40",
        icepack |-> "downloads/oss-cad-suite/bin/icepack",
        icetime |-> "downloads/oss-cad-suite/bin/icetime"]
  ELSE [yosys |-> "yosys", nextpnr |-> "nextpnr-ice40",
        icepack |-> "icepack", icetime |-> "icetime"]

-----------------------------------------------------------------------------
(* categorize_firmware *)

skip == {Chars("timer_ms"), Chars("timer_lib")}

\* The keys of the libraries dictionary, in its order.
LibNames == <<"incurses", "microrl", "simple_upload">>

lib_include(lib_name) == "lib/" \o lib_name

\* basename = os.path.basename(src).replace('.c', '')
Basename(src) == Replace(src.file, Chars(".c"), <<>>)

\* content = f.read(2000): the stretches of text that lie wholly within the
\* first ReadLimit characters.  (A stretch cut by the limit leaves a proper
\* prefix of itself, which holds no marker.)
RECURSIVE ReadPrefix(_, _)
ReadPrefix(content, room) ==
  IF content = <<>> \/ Width(Head(content)) > room THEN <<>>
  ELSE <<Head(content).text>> \o ReadPrefix(Tail(content), room - Width(Head(content)))

Read(file) == ReadPrefix(file.content, ReadLimit)

\* 'x' in content
InContent(marker, content) == \E i \in 1..Len(content) : content[i] = marker

\* uses_libs: the libraries whose path fragment or header name occurs.
UsesLibs(content) ==
  SelectSeq(LibNames, LAMBDA l : \/ InContent("lib/" \o l \o "/", content)
                                 \/ InContent(l \o ".h", content))

RuntimeMarkers ==
  <<"<stdio.h>", "<stdlib.h>", "<string.h>", "<math.h>", "_write", "_read", "_sbrk">>

\* The checks in the other order: runtime markers before library markers.
BuildClass_runtime_first(content) ==
  IF \E i \in 1..Len(RuntimeMarkers) : InContent(RuntimeMarkers[i], content) THEN "newlib"
  ELSE IF UsesLibs(content) # <<>> THEN "complex"
       ELSE "bare"

\* The list a unit is appended to.
BuildClass(content) ==
  IF UsesLibs(content) # <<>> THEN "complex"
  ELSE IF \E i \in 1..Len(RuntimeMarkers) : InContent(RuntimeMarkers[i], content)
       THEN "newlib"
       ELSE "bare"

\* d[k] = v on a dictionary kept as the sequence of its <<key, value>>
\* pairs in insertion order; d[k]; list(d).
DictSet(d, k, v) ==
  IF \E i \in 1..Len(d) : d[i][1] = k
  THEN [i \in 1..Len(d) |-> IF d[i][1] = k THEN <<k, v>> ELSE d[i]]
  ELSE Append(d, <<k, v>>)

DictGet(d, k) == d[CHOOSE i \in 1..Len(d) : d[i][1] = k][2]

-----------------------------------------------------------------------------
(* The text of build.ninja *)

\* One build statement: the section comment it is written under, its
\* output, rule, explicit inputs, implicit inputs (after "|") and the
\* variables bound beneath it ("" and <<>> where none is bound).
Stmt(sect, out, rule, ins) ==
  [sect |-> sect, out |-> out, rule |-> rule, ins |-> ins, implicit |-> <<>>,
   ldscript |-> "", cflags_extra |-> <<>>, pcf |-> "", in_var |-> <<>>]

Builddir(file) == Path("$builddir", file)

Firmdir(file) == Path("$firmdir", file)

Bootdir(file) == Path("$bootdir", file)

Phony(name) == Path("", Chars(name))

\* build.ninja: absent, or the configuration variables, rules and build
\* statements written so far and the default target.
NoFile == [exists |-> FALSE, config |-> <<>>, rules |-> <<>>, stmts |-> <<>>, default |-> ""]

EmptyFile == [NoFile EXCEPT !.exists = TRUE]

ConfigLines(nproc, prefix, tools) ==
  << <<"nproc", nproc>>, <<"prefix", prefix>>, <<"yosys", tools.yosys>>,
     <<"nextpnr", tools.nextpnr>>, <<"icepack", tools.icepack>>,
     <<"icetime", tools.icetime>>,
     <<"builddir", "build">>, <<"bootdir", "bootloader">>, <<"firmdir", "firmware">>,
     <<"hdldir", "hdl">>, <<"toolsdir", "tools/uploader">>, <<"artifactsdir", "artifacts">>,
     <<"bare_cflags", "-march=rv32im -mabi=ilp32 -O2 -Wall -Wextra -ffreestanding -nostdlib">>,
     <<"bare_ldflags", "-march=rv32im -mabi=ilp32 -nostdlib -Wl,--gc-sections">>,
     <<"newlib_cflags", "-march=rv32im -mabi=ilp32 -O2 -Wall -Wextra">>,
     <<"newlib_ldflags", "-march=rv32im -mabi=ilp32 -Wl,--gc-sections -static">>,
     <<"newlib_lib", "build/toolchain/riscv64-unknown-elf/lib/rv32im/ilp32">> >>

RuleLines ==
  << <<"cc_bare", "${prefix}gcc $bare_cflags -c $in -o $out">>,
     <<"cc_newlib", "${prefix}gcc $newlib_cflags -c $in -o $out">>,
     <<"cc_newlib_with_flags", "${prefix}gcc $newlib_cflags $cflags_extra -c $in -o $out">>,
     <<"ld_bare", "${prefix}gcc $bare_ldflags -T $ldscript $in -o $out">>,
     <<"ld_newlib", "${prefix}gcc $newlib_ldflags -T $ldscript $in -L$newlib_lib -lm -lc -lgcc -o $out">>,
     <<"objcopy", "${prefix}objcopy -O binary $in $out">>,
     <<"hexdump", "${prefix}objdump -D $in > $out">>,
     <<"synthesis", "$yosys -q -p \"read_verilog $in; synth_ice40 -abc9 -device hx8k -top ice40_picorv32_top -json $out\"">>,
     <<"pnr", "$nextpnr --hx8k --package ct256 --json $in --pcf $pcf --asc $out --placer heap --seed 1">>,
     <<"pack", "$icepack $in $out">>,
     <<"timing", "$icetime -d hx8k -t -m -r $out $in">>,
     <<"host_cc", "gcc -O2 -Wall -Wextra $in -o $out">>,
     <<"copy", "cp $in $out">>,
     <<"mkdir", "mkdir -p $out">> >>

BootloaderRules == << <<"as_bare", "${prefix}gcc $bare_cflags -c $in -o $out">> >>

BootloaderStmts ==
  LET S(out, rule, ins) == Stmt("Bootloader", out, rule, ins) IN
  << S(Builddir(Chars("bootloader.o")), "cc_bare", <<Bootdir(Chars("bootloader.c"))>>),
     S(Builddir(Chars("start.o")), "as_bare", <<Bootdir(Chars("start.S"))>>),
     [S(Bootdir(Chars("bootloader.elf")), "ld_bare",
        <<Builddir(Chars("start.o")), Builddir(Chars("bootloader.o"))>>)
        EXCEPT !.ldscript = "$bootdir/linker.ld"],
     S(Bootdir(Chars("bootloader.bin")), "objcopy", <<Bootdir(Chars("bootloader.elf"))>>),
     S(Bootdir(Chars("bootloader.hex")), "hexdump", <<Bootdir(Chars("bootloader.elf"))>>),
     S(Phony("bootloader"), "phony",
       <<Bootdir(Chars("bootloader.bin")), Bootdir(Chars("bootloader.hex"))>>) >>

\* $builddir/{target}.o, $firmdir/{target}.c, .elf and .bin
ObjOf(target) == Builddir(target \o Chars(".o"))

SrcOf(target) == Firmdir(target \o Chars(".c"))

ElfOf(target) == Firmdir(target \o Chars(".elf"))

BinOf(target) == Firmdir(target \o Chars(".bin"))

FwStart == Builddir(Chars("fw_start.o"))

\* build <name>: phony $firmdir/<t>.bin ...   (no inputs for an empty list)
Aggregate(sect, name, targets) ==
  Stmt(sect, Phony(name), "phony", [i \in 1..Len(targets) |-> BinOf(targets[i])])

BareTargetStmts(target) ==
  LET S(out, rule, ins) == Stmt("Firmware (bare metal)", out, rule, ins) IN
  << S(ObjOf(target), "cc_bare", <<SrcOf(target)>>),
     [S(ElfOf(target), "ld_bare", <<FwStart, ObjOf(target)>>)
        EXCEPT !.ldscript = "$firmdir/linker.ld"],
     S(BinOf(target), "objcopy", <<ElfOf(target)>>) >>

BareStmts(bare_targets) ==
  <<Stmt("Firmware (bare metal)", FwStart, "as_bare", <<Firmdir(Chars("start.S"))>>)>>
  \o Concat([i \in 1..Len(bare_targets) |-> BareTargetStmts(bare_targets[i])])
  \o <<Aggregate("Firmware (bare metal)", "firmware-bare", bare_targets)>>

NewlibTargetStmts(target) ==
  LET S(out, rule, ins) == Stmt("Firmware (with newlib)", out, rule, ins) IN
  << S(ObjOf(target), "cc_newlib", <<SrcOf(target)>>),
     [S(ElfOf(target), "ld_newlib", <<FwStart, ObjOf(target)>>)
        EXCEPT !.ldscript = "$firmdir/linker.ld"],
     S(BinOf(target), "objcopy", <<ElfOf(target)>>) >>

NewlibStmts(newlib_targets) ==
  Concat([i \in 1..Len(newlib_targets) |-> NewlibTargetStmts(newlib_targets[i])])
  \o <<Aggregate("Firmware (with newlib)", "firmware-newlib", newlib_targets)>>

\* lib_obj = $builddir/lib_{lib_name}_{basename(lib_src) with .c -> .o}
LibObj(lib_name, lib_src) ==
  Builddir(Chars("lib_") \o Chars(lib_name) \o Chars("_")
           \o Replace(lib_src.file, Chars(".c"), Chars(".o")))

\* The first occurrence of every element, in order: what the loop over
\* the dependencies builds while built_libs keeps the names already seen.
RECURSIVE Dedup(_)
Dedup(s) ==
  IF s = <<>> THEN <<>>
  ELSE LET front == SubSeq(s, 1, Len(s) - 1)
           last  == s[Len(s)]
       IN IF last \in Range(front) THEN Dedup(front) ELSE Append(Dedup(front), last)

\* The libraries built once per target that uses them (no built_libs check).
LibsToBuild_per_target(complex_deps) ==
  Concat([i \in 1..Len(complex_deps) |-> complex_deps[i][2]])

\* The libraries whose objects are built, in the order of their first use
\* by a target of complex_deps.
LibsToBuild(complex_deps) ==
  Dedup(Concat([i \in 1..Len(complex_deps) |-> complex_deps[i][2]]))

LibStmts(complex_deps, libraries) ==
  LET OfLib(lib_name) ==
        LET lib_sources == libraries[lib_name] IN
        [k \in 1..Len(lib_sources) |->
           [Stmt("Firmware (with libraries)", LibObj(lib_name, lib_sources[k]),
                 "cc_newlib_with_flags", <<lib_sources[k]>>)
              EXCEPT !.cflags_extra = <<"-I" \o lib_include(lib_name)>>]]
      libs == LibsToBuild(complex_deps)
  IN Concat([i \in 1..Len(libs) |-> OfLib(libs[i])])

\* A firmware with libraries linked with the bare-metal recipe.
ComplexLinkRule_bare == "ld_bare"

\* The rule of the link statement of a firmware with libraries.
ComplexLinkRule == "ld_newlib"

ComplexTargetStmts(target, deps, libraries) ==
  LET S(out, rule, ins) == Stmt("Firmware (with libraries)", out, rule, ins)
      include_paths == [i \in 1..Len(deps) |-> "-I" \o lib_include(deps[i])]
      lib_objs == Concat([i \in 1..Len(deps) |->
                    [k \in 1..Len(libraries[deps[i]]) |->
                       LibObj(deps[i], libraries[deps[i]][k])]])
  IN << [S(ObjOf(target), "cc_newlib_with_flags", <<SrcOf(target)>>)
           EXCEPT !.cflags_extra = include_paths],
        [S(ElfOf(target), ComplexLinkRule, <<FwStart, ObjOf(target)>> \o lib_objs)
           EXCEPT !.ldscript = "$firmdir/linker.ld"],
        S(BinOf(target), "objcopy", <<ElfOf(target)>>) >>

ComplexStmts(complex_targets, complex_deps, libraries) ==
  Concat([i \in 1..Len(complex_targets) |->
            ComplexTargetStmts(complex_targets[i],
                               DictGet(complex_deps, complex_targets[i]), libraries)])
  \o <<Aggregate("Firmware (with libraries)", "firmware-complex", complex_targets)>>
  \o <<Stmt("Firmware (with libraries)", Phony("firmware-all"), "phony",
            <<Phony("firmware-bare"), Phony("firmware-newlib"), Phony("firmware-complex")>>)>>

\* hdl_sources without the alternative and backup versions.
HdlFilter(hdl_sources) ==
  SelectSeq(hdl_sources,
            LAMBDA f : /\ ~Contains(Chars("hdl/") \o f.file, Chars("_2cycle"))
                       /\ ~Contains(Chars("hdl/") \o f.file, Chars(".3state")))

GatewareStmts(hdl_list) ==
  LET S(out, rule, ins) == Stmt("FPGA Gateware", out, rule, ins)
      json == Builddir(Chars("ice40_picorv32.json"))
      asc  == Builddir(Chars("ice40_picorv32.asc"))
      bin  == Builddir(Chars("ice40_picorv32.bin"))
      rpt  == Builddir(Chars("timing.rpt"))
  IN << [S(json, "synthesis", hdl_list) EXCEPT !.in_var = hdl_list],
        [S(asc, "pnr", <<json>>) EXCEPT !.pcf = "$hdldir/ice40_picorv32.pcf"],
        S(bin, "pack", <<asc>>),
        S(rpt, "timing", <<asc>>),
        S(Phony("bitstream"), "phony", <<bin>>),
        S(Phony("gateware"), "phony", <<Phony("bitstream"), rpt>>) >>

HostToolStmts ==
  << Stmt("Host Tools", Path("$toolsdir", Chars("fw_upload")), "host_cc",
          <<Path("$toolsdir", Chars("fw_upload.c"))>>),
     Stmt("Host Tools", Phony("uploader"), "phony", <<Path("$toolsdir", Chars("fw_upload"))>>) >>

ArtifactRules ==
  << <<"collect_firmware",
       "mkdir -p $artifactsdir/firmware && cp $firmdir/*.bin $artifactsdir/firmware/ 2>/dev/null || true">> >>

ArtifactStmts ==
  LET S(out, rule, ins) == Stmt("Artifacts", out, rule, ins)
      A(file) == Path("$artifactsdir", Chars(file))
  IN << [S(A("host/fw_upload"), "copy", <<Path("$toolsdir", Chars("fw_upload"))>>)
           EXCEPT !.implicit = <<A("host")>>],
        [S(A("gateware/ice40_picorv32.bin"), "copy", <<Builddir(Chars("ice40_picorv32.bin"))>>)
           EXCEPT !.implicit = <<A("gateware")>>],
        S(A("firmware"), "phony", <<>>),
        [S(Phony("collect-firmware"), "collect_firmware", <<>>)
           EXCEPT !.implicit = <<Phony("firmware-all")>>],
        S(A("host"), "mkdir", <<>>),
        S(A("gateware"), "mkdir", <<>>),
        S(Phony("artifacts"), "phony",
          <<A("host/fw_upload"), A("gateware/ice40_picorv32.bin"), Phony("collect-firmware")>>) >>

TopLevelStmts ==
  << Stmt("Top-level targets", Phony("all"), "phony",
          <<Phony("bootloader"), Phony("firmware-all"), Phony("gateware"),
            Phony("uploader"), Phony("artifacts")>>) >>

-----------------------------------------------------------------------------
(* generate_ninja *)

\* The newlib targets kept when the probe fails.
DemoteNewlib_kept(available, newlib_targets) == newlib_targets

\* newlib_targets, complex_targets and complex_deps after the newlib check.
DemoteNewlib(available, newlib_targets) ==
  IF ~available /\ Len(newlib_targets) > 0 THEN <<>> ELSE newlib_targets

DemoteComplex(available, complex_targets) ==
  IF ~available /\ Len(complex_targets) > 0 THEN <<>> ELSE complex_targets

DemoteDeps(available, complex_targets, complex_deps) ==
  IF ~available /\ Len(complex_targets) > 0 THEN <<>> ELSE complex_deps

\* The order of the steps with has_newlib called after build.ninja is opened.
StageAfter_late_probe(stage) ==
  CASE stage = "start"      -> "glob_libs"
    [] stage = "glob_libs"  -> "glob_fw"
    [] stage = "glob_fw"    -> "classify"
    [] stage = "classify"   -> "open"
    [] stage = "open"       -> "newlib"
    [] stage = "newlib"     -> "w_prologue"
    [] stage = "w_prologue" -> "w_bare"
    [] stage = "w_bare"     -> "w_newlib"
    [] stage = "w_newlib"   -> "w_complex"
    [] stage = "w_complex"  -> "glob_hdl"
    [] stage = "glob_hdl"   -> "w_gateware"
    [] stage = "w_gateware" -> "w_tail"
    [] stage = "w_tail"     -> "done"

\* The order of the steps of one run: the statement that follows each.
StageAfter(stage) ==
  CASE stage = "start"      -> "glob_libs"
    [] stage = "glob_libs"  -> "glob_fw"
    [] stage = "glob_fw"    -> "classify"
    [] stage = "classify"   -> "newlib"
    [] stage = "newlib"     -> "open"
    [] stage = "open"       -> "w_prologue"
    [] stage = "w_prologue" -> "w_bare"
    [] stage = "w_bare"     -> "w_newlib"
    [] stage = "w_newlib"   -> "w_complex"
    [] stage = "w_complex"  -> "glob_hdl"
    [] stage = "glob_hdl"   -> "w_gateware"
    [] stage = "w_gateware" -> "w_tail"
    [] stage = "w_tail"     -> "done"

\* The steps that run inside `with open('build.ninja', 'w') as f`.
WriteStages == {"w_prologue", "w_bare", "w_newlib", "w_complex", "w_gateware", "w_tail"}

VARIABLES
  tree,              \* the files of firmware/
  env,               \* what the probes of this machine find
  disk,              \* build.ninja
  run,               \* "first" or "second" invocation of the script
  before,            \* build.ninja when the current run started
  prev,              \* what the previous run globbed and probed
  pc,                \* the step the run is at, "done" or "failed"
  exit_code,         \* -1 while running
  log,               \* the file-system and process operations of the run
  nproc, prefix, tools,
  libraries,         \* name -> glob of lib/<name>/*.c
  fw_list,           \* glob('firmware/*.c')
  idx,               \* position of the loop over fw_list
  bare_targets, newlib_targets, complex_targets, complex_deps,
  newlib_available,
  hdl_sources

locals == <<nproc, prefix, tools, libraries, fw_list, idx, bare_targets,
            newlib_targets, complex_targets, complex_deps, newlib_available,
            hdl_sources>>

vars == <<tree, env, disk, run, before, prev, pc, exit_code, log, locals>>

NoTools == [yosys |-> "", nextpnr |-> "", icepack |-> "", icetime |-> ""]

NoLibraries == [l \in Range(LibNames) |-> <<>>]

NoPrev == [newlib |-> FALSE, fw_list |-> <<>>]

\* The locals of a run before its first statement.
Fresh ==
  /\ nproc = "" /\ prefix = "" /\ tools = NoTools
  /\ libraries = NoLibraries
  /\ fw_list = <<>> /\ idx = 1
  /\ bare_targets = <<>> /\ newlib_targets = <<>>
  /\ complex_targets = <<>> /\ complex_deps = <<>>
  /\ newlib_available = FALSE
  /\ hdl_sources = <<>>

Init ==
  /\ tree \in FirmwareTrees
  /\ env \in Environments
  /\ disk = NoFile
  /\ run = "first"
  /\ before = NoFile
  /\ prev = NoPrev
  /\ pc = "start"
  /\ exit_code = -1
  /\ log = <<>>
  /\ Fresh

\* nproc = get_nproc(); prefix = detect_toolchain_prefix(); tools = detect_fpga_tools()
Probes ==
  /\ pc = "start"
  /\ nproc' = get_nproc(env)
  /\ prefix' = detect_toolchain_prefix(env)
  /\ tools' = detect_fpga_tools(env)
  /\ log' = log \o <<"probe:nproc", "probe:toolchain", "probe:fpga_tools">>
  /\ pc' = StageAfter("start")
  /\ UNCHANGED <<tree, env, disk, run, before, prev, exit_code, libraries, fw_list,
                 idx, bare_targets, newlib_targets, complex_targets, complex_deps,
                 newlib_available, hdl_sources>>

\* categorize_firmware: the libraries dictionary, one glob per library.
GlobLibraries ==
  /\ pc = "glob_libs"
  /\ \E order \in [Range(LibNames) -> UNION {Orders(LibTree(l)) : l \in Range(LibNames)}] :
       /\ \A l \in Range(LibNames) : order[l] \in Orders(LibTree(l))
       /\ libraries' = [l \in Range(LibNames) |->
                          [k \in 1..Len(order[l]) |-> Path(lib_include(l), order[l][k])]]
  /\ log' = log \o [i \in 1..Len(LibNames) |-> "glob:lib"]
  /\ pc' = StageAfter("glob_libs")
  /\ UNCHANGED <<tree, env, disk, run, before, prev, exit_code, nproc, prefix, tools,
                 fw_list, idx, bare_targets, newlib_targets, complex_targets,
                 complex_deps, newlib_available, hdl_sources>>

\* for src in glob.glob('firmware/*.c')
GlobFirmware ==
  /\ pc = "glob_fw"
  /\ fw_list' \in Orders(tree)
  /\ idx' = 1
  /\ log' = Append(log, "glob:firmware")
  /\ pc' = StageAfter("glob_fw")
  /\ UNCHANGED <<tree, env, disk, run, before, prev, exit_code, nproc, prefix, tools,
                 libraries, bare_targets, newlib_targets, complex_targets,
                 complex_deps, newlib_available, hdl_sources>>

\* One pass of the loop body over a file that is skipped or read.
ClassifyOne ==
  /\ pc = "classify"
  /\ idx <= Len(fw_list)
  /\ LET src      == Path("firmware", fw_list[idx].name)
         basename == Basename(src)
         content  == Read(fw_list[idx])
         class    == BuildClass(content)
     IN IF basename \in skip
        THEN UNCHANGED <<bare_targets, newlib_targets, complex_targets, complex_deps, log>>
        ELSE /\ log' = Append(log, "read:firmware")
             /\ bare_targets' =
                  IF class = "bare" THEN Append(bare_targets, basename) ELSE bare_targets
             /\ newlib_targets' =
                  IF class = "newlib" THEN Append(newlib_targets, basename) ELSE newlib_targets
             /\ complex_targets' =
                  IF class = "complex" THEN Append(complex_targets, basename) ELSE complex_targets
             /\ complex_deps' =
                  IF class = "complex" THEN DictSet(complex_deps, basename, UsesLibs(content))
                  ELSE complex_deps
  /\ idx' = idx + 1
  /\ UNCHANGED <<tree, env, disk, run, before, prev, pc, exit_code, nproc, prefix, tools,
                 libraries, fw_list, newlib_available, hdl_sources>>

\* open(src, 'r') or f.read raises: the exception ends the script.
ReadFails ==
  /\ pc = "classify"
  /\ idx <= Len(fw_list)
  /\ Basename(Path("firmware", fw_list[idx].name)) \notin skip
  /\ log' = Append(log, "read:firmware")
  /\ pc' = "failed"
  /\ exit_code' = 1
  /\ UNCHANGED <<tree, env, disk, run, before, prev, locals>>

\* return bare, newlib, complex_fw, complex_deps
ClassifyReturn ==
  /\ pc = "classify"
  /\ idx > Len(fw_list)
  /\ pc' = StageAfter("classify")
  /\ UNCHANGED <<tree, env, disk, run, before, prev, exit_code, log, locals>>

\* newlib_available = has_newlib() and the demotion of the dependent lists.
ProbeNewlib ==
  /\ pc = "newlib"
  /\ newlib_available' \in has_newlib(env)
  /\ newlib_targets' = DemoteNewlib(newlib_available', newlib_targets)
  /\ complex_targets' = DemoteComplex(newlib_available', complex_targets)
  /\ complex_deps' = DemoteDeps(newlib_available', complex_targets, complex_deps)
  /\ log' = log \o <<"probe:toolchain", "probe:newlib">>
  /\ pc' = StageAfter("newlib")
  /\ UNCHANGED <<tree, env, disk, run, before, prev, exit_code, nproc, prefix, tools,
                 libraries, fw_list, idx, bare_targets, hdl_sources>>

\* open('build.ninja', 'w'): the file is created or truncated.
OpenOutput ==
  /\ pc = "open"
  /\ disk' = EmptyFile
  /\ log' = Append(log, "open")
  /\ pc' = StageAfter("open")
  /\ UNCHANGED <<tree, env, run, before, prev, exit_code, locals>>

\* What each writing step adds to the file.
Written(stage, d) ==
  CASE stage = "w_prologue" ->
         [d EXCEPT !.config = ConfigLines(nproc, prefix, tools),
                   !.rules = RuleLines \o BootloaderRules,
                   !.stmts = BootloaderStmts]
    [] stage = "w_bare" ->
         [d EXCEPT !.stmts = @ \o BareStmts(bare_targets)]
    [] stage = "w_newlib" ->
         [d EXCEPT !.stmts = @ \o NewlibStmts(newlib_targets)]
    [] stage = "w_complex" ->
         [d EXCEPT !.stmts = @ \o LibStmts(complex_deps, libraries)
                               \o ComplexStmts(complex_targets, complex_deps, libraries)]
    [] stage = "w_gateware" ->
         [d EXCEPT !.stmts = @ \o GatewareStmts(hdl_sources)]
    [] stage = "w_tail" ->
         [d EXCEPT !.rules = @ \o ArtifactRules,
                   !.stmts = @ \o HostToolStmts \o ArtifactStmts \o TopLevelStmts,
                   !.default = "all"]

\* The f.write calls up to the HDL scan, and the one after it.
Write ==
  /\ pc \in WriteStages \ {"w_tail"}
  /\ disk' = Written(pc, disk)
  /\ log' = Append(log, "write")
  /\ pc' = StageAfter(pc)
  /\ UNCHANGED <<tree, env, run, before, prev, exit_code, locals>>

\* hdl_sources = glob.glob('hdl/*.v') and its filter.
GlobHdl ==
  /\ pc = "glob_hdl"
  /\ \E order \in Orders(HdlTree) :
       hdl_sources' = HdlFilter([k \in 1..Len(order) |-> Path("hdl", order[k])])
  /\ log' = Append(log, "glob:hdl")
  /\ pc' = StageAfter("glob_hdl")
  /\ UNCHANGED <<tree, env, disk, run, before, prev, exit_code, nproc, prefix, tools,
                 libraries, fw_list, idx, bare_targets, newlib_targets, complex_targets,
                 complex_deps, newlib_available>>

\* The last writes, the close at the end of the with block, and the exit.
WriteTail ==
  /\ pc = "w_tail"
  /\ disk' = Written("w_tail", disk)
  /\ log' = log \o <<"write", "close">>
  /\ pc' = StageAfter("w_tail")
  /\ exit_code' = 0
  /\ UNCHANGED <<tree, env, run, before, prev, locals>>

\* f.write raises (disk full, I/O error): the with block closes the file as
\* it is and the exception ends the script.
WriteFails ==
  /\ pc \in WriteStages
  /\ log' = log \o <<"write", "close">>
  /\ pc' = "failed"
  /\ exit_code' = 1
  /\ UNCHANGED <<tree, env, disk, run, before, prev, locals>>

\* The script is run again on the same tree and machine.
Rerun ==
  /\ pc = "done"
  /\ run = "first"
  /\ run' = "second"
  /\ before' = disk
  /\ prev' = [newlib |-> newlib_available, fw_list |-> fw_list]
  /\ pc' = "start"
  /\ exit_code' = -1
  /\ log' = <<>>
  /\ nproc' = "" /\ prefix' = "" /\ tools' = NoTools
  /\ libraries' = NoLibraries
  /\ fw_list' = <<>> /\ idx' = 1
  /\ bare_targets' = <<>> /\ newlib_targets' = <<>>
  /\ complex_targets' = <<>> /\ complex_deps' = <<>>
  /\ newlib_available' = FALSE
  /\ hdl_sources' = <<>>
  /\ UNCHANGED <<tree, env, disk>>

Next ==
  \/ Probes
  \/ GlobLibraries
  \/ GlobFirmware
  \/ ClassifyOne
  \/ ReadFails
  \/ ClassifyReturn
  \/ ProbeNewlib
  \/ OpenOutput
  \/ Write
  \/ GlobHdl
  \/ WriteTail
  \/ WriteFails
  \/ Rerun

Spec == Init /\ [][Next]_vars

-----------------------------------------------------------------------------
(* Properties of the output *)

\* The places of the statements of d under a section, and the statements.
InSection(d, sect) == {i \in 1..Len(d.stmts) : d.stmts[i].sect = sect}

SectionOf(d, sect) == SelectSeq(d.stmts, LAMBDA s : s.sect = sect)

\* The files of firmware/ that are not on the skip list, with the stem,
\* content read and class of each.
UnitBase(f) == Basename(Path("firmware", f.name))

Units == {f \in tree : UnitBase(f) \notin skip}

\* A link statement of a firmware image: its output is $firmdir/<x>.elf.
IsFirmwareLink(s) == s.out.dir = "$firmdir" /\ EndsWith(s.out.file, Chars(".elf"))

\* The inputs of a phony target, over every statement that declares it.
Members(d, name) ==
  UNION {Range(d.stmts[i].ins) : i \in {j \in 1..Len(d.stmts) : d.stmts[j].out = Phony(name)}}

\* C1: for every LibraryDependent unit, the inputs of its link statement
\* are the startup object, the unit's own object exactly once and every
\* module object of every library it references exactly once, and nothing
\* else, whatever the unit's base name.
C1_LinkInputsExact ==
  (pc = "done" /\ newlib_available) =>
    \A f \in Units :
      BuildClass(Read(f)) = "complex" =>
        LET own     == ObjOf(UnitBase(f))
            libs    == Range(UsesLibs(Read(f)))
            libobjs == UNION {{LibObj(l, Path(lib_include(l), m)) : m \in LibTree(l)} : l \in libs}
            links   == {i \in InSection(disk, "Firmware (with libraries)") :
                          disk.stmts[i].out = ElfOf(UnitBase(f))}
        IN /\ links # {}
           /\ \A i \in links :
                LET ins == disk.stmts[i].ins IN
                /\ Count(FwStart, ins) = 1
                /\ Count(own, ins) = 1
                /\ \A o \in libobjs : Count(o, ins) = 1
                /\ Range(ins) \subseteq {FwStart, own} \cup libobjs

\* C4: a second run on the unchanged tree with unchanged probes leaves
\* build.ninja as the first run wrote it, whatever order glob returns the
\* files in.
C4_SameOutputOnRerun ==
  (run = "second" /\ pc = "done" /\ newlib_available = prev.newlib) => disk = before

\* The directory a $variable of the file stands for.
ExpandDir(dir) ==
  CASE dir = "$builddir"     -> "build"
    [] dir = "$bootdir"      -> "bootloader"
    [] dir = "$firmdir"      -> "firmware"
    [] dir = "$hdldir"       -> "hdl"
    [] dir = "$toolsdir"     -> "tools/uploader"
    [] dir = "$artifactsdir" -> "artifacts"
    [] OTHER                 -> dir

Resolve(p) == Path(ExpandDir(p.dir), p.file)

\* The source files of the project: the scanned ones and those the
\* templates name.
SourceFiles ==
  {Path("firmware", f.name) : f \in tree}
  \cup UNION {{Path(lib_include(l), m) : m \in LibTree(l)} : l \in Range(LibNames)}
  \cup {Path("hdl", v) : v \in HdlTree}
  \cup { Path("firmware", Chars("start.S")), Path("bootloader", Chars("start.S")),
         Path("bootloader", Chars("bootloader.c")),
         Path("tools/uploader", Chars("fw_upload.c")) }

Inputs(s) == Range(s.ins) \cup Range(s.implicit)

\* The statements of d that produce the path p.
Producers(d, p) == {i \in 1..Len(d.stmts) : Resolve(d.stmts[i].out) = Resolve(p)}

\* No statement of d among R depends, through statements of R, on its own
\* output: the statements none of whose inputs is produced in R can be
\* taken away until none is left.
RECURSIVE Acyclic(_, _)
Acyclic(d, R) ==
  LET free == {i \in R : \A p \in Inputs(d.stmts[i]) : Producers(d, p) \cap R = {}}
  IN IF R = {} THEN TRUE
     ELSE IF free = {} THEN FALSE
     ELSE Acyclic(d, R \ free)

\* C5: in the emitted graph every input is an original source file or the
\* output of exactly one statement, no path is the output of two
\* statements, and no statement depends on its own output.
C5_GraphWellFormed ==
  pc = "done" =>
    /\ \A i, j \in 1..Len(disk.stmts) :
         i # j => Resolve(disk.stmts[i].out) # Resolve(disk.stmts[j].out)
    /\ \A i \in 1..Len(disk.stmts) :
         \A p \in Inputs(disk.stmts[i]) :
           Resolve(p) \in SourceFiles \/ Cardinality(Producers(disk, p)) = 1
    /\ Acyclic(disk, 1..Len(disk.stmts))

\* A complete serialization: the file ends with its last line, the default
\* target.
Complete(d) == d.exists /\ d.default = "all"

\* C6: at every point of a run build.ninja holds what it held before the
\* run or a complete serialization, and a run that aborts exits non-zero.
C6_NoPartialFile ==
  /\ disk = before \/ Complete(disk)
  /\ pc = "failed" => exit_code # 0

\* C9: with newlib available every unit that is not skipped has its binary
\* in the aggregate of its class and in no other, a skipped unit is in no
\* aggregate and has no build statement, each of the three aggregates is
\* emitted once, and firmware-all depends on exactly the three.
AggregateOf(class) ==
  CASE class = "bare"    -> "firmware-bare"
    [] class = "newlib"  -> "firmware-newlib"
    [] class = "complex" -> "firmware-complex"

C9_OneAggregatePerUnit ==
  (pc = "done" /\ newlib_available) =>
    /\ \A f \in Units :
         \A class \in {"bare", "newlib", "complex"} :
           BinOf(UnitBase(f)) \in Members(disk, AggregateOf(class))
             <=> class = BuildClass(Read(f))
    /\ \A f \in tree \ Units :
         /\ \A class \in {"bare", "newlib", "complex"} :
              BinOf(UnitBase(f)) \notin Members(disk, AggregateOf(class))
         /\ \A i \in 1..Len(disk.stmts) :
              disk.stmts[i].out \notin
                {ObjOf(UnitBase(f)), ElfOf(UnitBase(f)), BinOf(UnitBase(f))}
    /\ \A class \in {"bare", "newlib", "complex"} :
         Cardinality({i \in 1..Len(disk.stmts) :
                        /\ disk.stmts[i].out = Phony(AggregateOf(class))
                        /\ disk.stmts[i].rule = "phony"}) = 1
    /\ \A i \in 1..Len(disk.stmts) :
         disk.stmts[i].out = Phony("firmware-all") =>
           disk.stmts[i].ins =
             <<Phony("firmware-bare"), Phony("firmware-newlib"), Phony("firmware-complex")>>

\* C7 as stated: the link statements of units of different classes use
\* different rules, so that three classes have three link recipes.
C7_ThreeLinkRecipes ==
  pc = "done" =>
    \A i, j \in 1..Len(disk.stmts) :
      LET s == disk.stmts[i]
          u == disk.stmts[j]
      IN (IsFirmwareLink(s) /\ IsFirmwareLink(u) /\ s.sect # u.sect) => s.rule # u.rule

\* The command of a rule of the file d.
RuleCommands(d, name) == {d.rules[i][2] : i \in {k \in 1..Len(d.rules) : d.rules[k][1] = name}}

\* C7 amended: a BareMetal unit is linked with ld_bare, a MinimalRuntime
\* and a LibraryDependent unit are both linked with ld_newlib, the two
\* rules are defined once each with different commands, and the classes
\* are compiled with three different rules.
C7_LinkRecipeByRuntime ==
  pc = "done" =>
    /\ \A i \in 1..Len(disk.stmts) :
         LET s == disk.stmts[i] IN
         IsFirmwareLink(s) =>
           /\ s.sect = "Firmware (bare metal)" => s.rule = "ld_bare"
           /\ s.sect = "Firmware (with newlib)" => s.rule = "ld_newlib"
           /\ s.sect = "Firmware (with libraries)" => s.rule = "ld_newlib"
    /\ \A i \in 1..Len(disk.stmts) :
         LET s == disk.stmts[i] IN
         (s.ins # <<>> /\ s.ins[1].dir = "$firmdir" /\ EndsWith(s.ins[1].file, Chars(".c"))) =>
           /\ s.sect = "Firmware (bare metal)" => s.rule = "cc_bare"
           /\ s.sect = "Firmware (with newlib)" => s.rule = "cc_newlib"
           /\ s.sect = "Firmware (with libraries)" => s.rule = "cc_newlib_with_flags"
    /\ Cardinality(RuleCommands(disk, "ld_bare")) = 1
    /\ Cardinality(RuleCommands(disk, "ld_newlib")) = 1
    /\ RuleCommands(disk, "ld_bare") # RuleCommands(disk, "ld_newlib")

\* A finished run that linked a unit of each of the two runtime classes.
C7_Witness ==
  /\ pc = "done"
  /\ \E i \in InSection(disk, "Firmware (with newlib)") : IsFirmwareLink(disk.stmts[i])
  /\ \E i \in InSection(disk, "Firmware (with libraries)") : IsFirmwareLink(disk.stmts[i])

\* The operations that enumerate or read the source tree, and the probes.
ScanEvents == {"glob:lib", "glob:firmware", "glob:hdl", "read:firmware"}

ProbeEvents == {"probe:nproc", "probe:toolchain", "probe:fpga_tools", "probe:newlib"}

CompilesOf(d, src) ==
  {i \in 1..Len(d.stmts) :
     d.stmts[i].ins = <<src>> /\ d.stmts[i].rule \in {"cc_bare", "cc_newlib", "cc_newlib_with_flags"}}

ComplexCompiles(d) ==
  {i \in InSection(d, "Firmware (with libraries)") :
     /\ d.stmts[i].rule = "cc_newlib_with_flags"
     /\ d.stmts[i].ins[1].dir = "$firmdir"}

Referencing(d, l) ==
  {i \in ComplexCompiles(d) : ("-I" \o lib_include(l)) \in Range(d.stmts[i].cflags_extra)}

\* C2: once the library section is written, a library that some emitted
\* firmware references has exactly one compile statement per module,
\* however many firmware reference it; a library that none references has
\* no compile statement; and the link statement of every referencing
\* firmware names, after the startup object and its own object, exactly
\* the outputs of those statements, each once.
C2_LibraryBuiltOnce ==
  (\E i \in 1..Len(disk.stmts) : disk.stmts[i].out = Phony("firmware-all")) =>
    /\ \A l \in Range(LibNames) :
         \A m \in LibTree(l) :
           Cardinality(CompilesOf(disk, Path(lib_include(l), m)))
             = IF Referencing(disk, l) # {} THEN 1 ELSE 0
    /\ \A i \in ComplexCompiles(disk) :
         LET link    == disk.stmts[i + 1]
             libpart == SubSeq(link.ins, 3, Len(link.ins))
             used    == {l \in Range(LibNames) : i \in Referencing(disk, l)}
             srcs    == UNION {{Path(lib_include(l), m) : m \in LibTree(l)} : l \in used}
             objs    == {disk.stmts[k].out : k \in UNION {CompilesOf(disk, src) : src \in srcs}}
         IN /\ IsFirmwareLink(link)
            /\ SubSeq(link.ins, 1, 2) = <<FwStart, disk.stmts[i].out>>
            /\ Range(libpart) = objs
            /\ \A o \in objs : Count(o, libpart) = 1

\* Two emitted firmware share incurses, and no firmware uses simple_upload.
C2_Witness ==
  /\ pc = "done"
  /\ Cardinality(Referencing(disk, "incurses")) >= 2
  /\ Cardinality({i \in 1..Len(disk.stmts) :
                    disk.stmts[i].ins # <<>> /\ disk.stmts[i].ins[1].dir = "lib/incurses"}) = 2
  /\ Referencing(disk, "simple_upload") = {}

\* The markers, as the script spells them.
C3_LibraryMarkers(l) ==
  CASE l = "incurses"      -> {"lib/incurses/", "incurses.h"}
    [] l = "microrl"       -> {"lib/microrl/", "microrl.h"}
    [] l = "simple_upload" -> {"lib/simple_upload/", "simple_upload.h"}

C3_RuntimeMarkers ==
  {"<stdio.h>", "<stdlib.h>", "<string.h>", "<math.h>", "_write", "_read", "_sbrk"}

\* C3: every pass of the classification loop over a unit that is not
\* skipped appends the unit to exactly one list, chosen from the content
\* read: complex_targets, with every matching library recorded, when a
\* library marker occurs, also beside a runtime marker; newlib_targets
\* when no library marker and some runtime marker occurs; bare_targets
\* when neither occurs.
C3_ClassifyOrder ==
  [][ (pc = "classify" /\ idx' = idx + 1 /\ UnitBase(fw_list[idx]) \notin skip) =>
        LET base    == UnitBase(fw_list[idx])
            content == Range(Read(fw_list[idx]))
            libs    == {l \in Range(LibNames) : C3_LibraryMarkers(l) \cap content # {}}
            runtime == C3_RuntimeMarkers \cap content # {}
        IN /\ libs # {} =>
                /\ complex_targets' = Append(complex_targets, base)
                /\ Range(DictGet(complex_deps', base)) = libs
                /\ newlib_targets' = newlib_targets /\ bare_targets' = bare_targets
           /\ (libs = {} /\ runtime) =>
                /\ newlib_targets' = Append(newlib_targets, base)
                /\ complex_targets' = complex_targets /\ bare_targets' = bare_targets
                /\ complex_deps' = complex_deps
           /\ (libs = {} /\ ~runtime) =>
                /\ bare_targets' = Append(bare_targets, base)
                /\ complex_targets' = complex_targets /\ newlib_targets' = newlib_targets
                /\ complex_deps' = complex_deps
    ]_vars

\* A unit whose content holds a library marker and a runtime marker has
\* been classified: it is in complex_targets and newlib_targets is empty.
C3_Witness ==
  /\ pc = "classify"
  /\ \E k \in 1..(idx - 1) :
       LET content == Range(Read(fw_list[k])) IN
       /\ UnitBase(fw_list[k]) \notin skip
       /\ {"lib/microrl/", "incurses.h"} \subseteq content
       /\ "_write" \in content
       /\ UnitBase(fw_list[k]) \in Range(complex_targets)
  /\ newlib_targets = <<>>

\* C8: a finished run whose newlib probe failed wrote the two dependent
\* sections as the empty aggregates alone (with firmware-all), used no
\* newlib rule anywhere, and wrote the bare-metal section as the run before
\* it did, whose probe succeeded on the same enumeration.
C8_DemotedWithoutNewlib ==
  (pc = "done" /\ ~newlib_available) =>
    /\ SectionOf(disk, "Firmware (with newlib)")
         = <<Stmt("Firmware (with newlib)", Phony("firmware-newlib"), "phony", <<>>)>>
    /\ SectionOf(disk, "Firmware (with libraries)")
         = << Stmt("Firmware (with libraries)", Phony("firmware-complex"), "phony", <<>>),
              Stmt("Firmware (with libraries)", Phony("firmware-all"), "phony",
                   <<Phony("firmware-bare"), Phony("firmware-newlib"), Phony("firmware-complex")>>) >>
    /\ \A i \in 1..Len(disk.stmts) :
         disk.stmts[i].rule \notin {"cc_newlib", "cc_newlib_with_flags", "ld_newlib"}
    /\ (run = "second" /\ prev.newlib /\ prev.fw_list = fw_list) =>
         /\ SectionOf(disk, "Firmware (bare metal)") = SectionOf(before, "Firmware (bare metal)")
         /\ Len(SectionOf(disk, "Firmware (bare metal)")) = 3 * Len(bare_targets) + 2

\* The probe failed on a tree with a bare-metal unit and a unit that needs
\* newlib, after a run on the same enumeration in which it succeeded.
C8_Witness ==
  /\ pc = "done" /\ ~newlib_available
  /\ run = "second" /\ prev.newlib /\ prev.fw_list = fw_list
  /\ bare_targets # <<>>
  /\ \E f \in Units : BuildClass(Read(f)) # "bare"
  /\ \E i \in 1..Len(before.stmts) : before.stmts[i].rule = "ld_newlib"

====
